---------------------------- MODULE Spec2Model ----------------------------
(***************************************************************************)
(* A model of cgcloud's SparkTools (cgcloud/spark_tools/__init__.py): the  *)
(* slaves file and the known-hosts file kept on the Spark master, the      *)
(* sparkbox-manage-slaves sessions that rewrite them under flock, and the  *)
(* boot sequence of a node (SparkTools.start).                             *)
(*                                                                         *)
(* A Python str is a sequence of one-character strings, so that split,     *)
(* strip, join, readlines and sort are computed as Python computes them.   *)
(***************************************************************************)
EXTENDS Integers, Sequences, FiniteSets, TLC

(***************************************************************************)
(* Strings                                                                 *)
(***************************************************************************)

\* The characters that occur in the model, in ascending byte order.
Alphabet ==
    << "\n", " ", "-", ".", "0", "1", "2", "3", "5", "9", ":",
       "A", "B", "C", "K", "M",
       "a", "c", "d", "e", "h", "k", "m", "n", "o", "p", "r", "s", "t", "w" >>

\* ord(c), up to an order-preserving renumbering.
Ord(c) == CHOOSE i \in 1..Len(Alphabet) : Alphabet[i] = c

\* string.whitespace, restricted to the alphabet.
Whitespace == { "\n", " " }

\* a < b for two str values: byte-wise lexicographic order.
RECURSIVE StrLess(_, _)
StrLess(a, b) ==
    IF b = <<>> THEN FALSE
    ELSE IF a = <<>> THEN TRUE
    ELSE IF Head(a) = Head(b) THEN StrLess(Tail(a), Tail(b))
    ELSE Ord(Head(a)) < Ord(Head(b))

\* Index of the first occurrence of character c in s, 0 if there is none.
Find(s, c) ==
    IF \E i \in 1..Len(s) : s[i] = c
    THEN CHOOSE i \in 1..Len(s) : s[i] = c /\ \A j \in 1..(i-1) : s[j] # c
    ELSE 0

\* s.split(c) for a one-character separator c.
RECURSIVE Split(_, _)
Split(s, c) ==
    LET i == Find(s, c) IN
    IF i = 0 THEN << s >>
    ELSE << SubSeq(s, 1, i-1) >> \o Split(SubSeq(s, i+1, Len(s)), c)

\* sep.join(list)
RECURSIVE Join(_, _)
Join(sep, list) ==
    IF list = <<>> THEN <<>>
    ELSE IF Len(list) = 1 THEN list[1]
    ELSE list[1] \o sep \o Join(sep, Tail(list))

\* s.lstrip()
RECURSIVE LStrip(_)
LStrip(s) ==
    IF s # <<>> /\ Head(s) \in Whitespace THEN LStrip(Tail(s)) ELSE s

\* s.rstrip()
RECURSIVE RStrip(_)
RStrip(s) ==
    IF s # <<>> /\ s[Len(s)] \in Whitespace
    THEN RStrip(SubSeq(s, 1, Len(s)-1)) ELSE s

\* A strip( ) that is left out.
Strip_left_out(s) == s

\* s.strip()
Strip(s) == RStrip(LStrip(s))

\* s.split(): the whitespace-separated words of s.
RECURSIVE Words(_)
Words(s) ==
    LET t == LStrip(s) IN
    IF t = <<>> THEN <<>>
    ELSE LET ends == { i \in 1..Len(t) : t[i] \in Whitespace }
             n    == IF ends = {} THEN Len(t) + 1
                     ELSE CHOOSE i \in ends : \A j \in ends : i <= j
         IN << SubSeq(t, 1, n-1) >> \o Words(SubSeq(t, n, Len(t)))

\* f.readlines(): the lines of a file's data, each with its line end.
RECURSIVE ReadLines(_)
ReadLines(data) ==
    LET i == Find(data, "\n") IN
    IF data = <<>> THEN <<>>
    ELSE IF i = 0 THEN << data >>
    ELSE << SubSeq(data, 1, i) >> \o ReadLines(SubSeq(data, i+1, Len(data)))

\* The elements of a list.
Range(list) == { list[i] : i \in 1..Len(list) }

\* list( S ) followed by list.sort( ): the strings of S in ascending order.
RECURSIVE SortedList(_)
SortedList(S) ==
    IF S = {} THEN <<>>
    ELSE LET m == CHOOSE x \in S : \A y \in S : x = y \/ StrLess(x, y)
         IN << m >> \o SortedList(S \ {m})


(***************************************************************************)
(* The cluster: instances, their addresses and their host keys             *)
(***************************************************************************)

\* Sessions of sparkbox-manage-slaves the model lets run on the master.
MaxSessions == 2

\* The instance ID of the master and of the slaves.
Master == "i-m"
Workers == { "i-w1", "i-w2", "i-w3" }
Instances == { Master } \cup Workers

\* Instance.private_ip_address, which is also meta-data/local-ipv4.
private_ip_address(i) ==
    CASE i = "i-w1" -> << "1", "0", ".", "0", ".", "0", ".", "2" >>
      [] i = "i-w2" -> << "1", "0", ".", "0", ".", "0", ".", "3" >>
      [] i = "i-w3" -> << "1", "0", ".", "0", ".", "0", ".", "5" >>
      [] OTHER      -> << "1", "0", ".", "0", ".", "0", ".", "1" >>

\* The content of /etc/ssh/ssh_host_ecdsa_key.pub on instance i.
ssh_host_ecdsa_key_pub(i) ==
    CASE i = "i-w1" -> << "r", "s", "a", " ", "B", "B", "B", " ", "w", "\n" >>
      [] i = "i-w2" -> << "r", "s", "a", " ", "C", "C", "C", " ", "w", "\n" >>
      [] i = "i-w3" -> << "e", "c", "d", "s", "a", "-", "s", "h", "a", "2", " ", "A", "A", "A", "A", " ", "w", "\n" >>
      [] OTHER      -> << "e", "c", "d", "s", "a", "-", "s", "h", "a", "2", " ", "M", "M", "M", " ", "m", "\n" >>

\* list[ :2 ]
FirstTwo(list) == SubSeq(list, 1, IF Len(list) < 2 THEN Len(list) ELSE 2)

\* SparkTools.__get_host_key on instance i: "algo:key".
get_host_key(i) == Join(<< ":" >>, FirstTwo(Words(ssh_host_ecdsa_key_pub(i))))

\* The argument slave i passes to sparkbox-manage-slaves: "ip:algo:key".
register_arg(i) == private_ip_address(i) \o << ":" >> \o get_host_key(i)

(***************************************************************************)
(* Files                                                                   *)
(***************************************************************************)

\* A path with no file, and a file with its data.
NoFile == [ exists |-> FALSE, data |-> <<>> ]
File(data) == [ exists |-> TRUE, data |-> data ]

\* open( path, 'w' ): the file is created or truncated.
open_write(file) == File(<<>>)

\* open( path, 'a' ) and open( path, 'a+' ) create the file when it is missing
\* and leave the data of an existing file alone.
open_append(file) == File(file.data)

\* The stripped lines of a file, as manage_slaves and __add_host_keys read
\* them (glibc starts reading an 'a+' stream at the beginning of the file).
stripped_lines(file) == { Strip(l) : l \in Range(ReadLines(file.data)) }

\* A rewrite without the trailing empty entry (no slaves.append( '' )).
canonical_no_trailing(entries) ==
    Join(<< "\n" >>, SortedList(entries \ { <<>> }))

\* What both functions write back: the non-empty entries in ascending
\* order, each one followed by a line end.
canonical(entries) ==
    Join(<< "\n" >>, Append(SortedList(entries \ { <<>> }), <<>>))

\* A merge that forgets the slaves in the file.
merge_slaves_replacing(file, slaves_to_add) ==
    { Split(e, ":")[1] : e \in Range(slaves_to_add) }

\* manage_slaves, slaves given: the slaves in the file and the IP of each
\* entry of slaves_to_add.
merge_slaves(file, slaves_to_add) ==
    stripped_lines(file) \cup { Split(e, ":")[1] : e \in Range(slaves_to_add) }

\* A listing whose filter on the master's ID is inverted.
list_slaves_inverted(tagged_instances, master_id) ==
    { private_ip_address(i) : i \in { j \in tagged_instances : j = master_id } }

\* manage_slaves, no slaves given: the private IP of every instance tagged
\* with the master's ID, the master excepted.
list_slaves(tagged_instances, master_id) ==
    { private_ip_address(i) : i \in { j \in tagged_instances : j # master_id } }

\* A merge that keeps the colons of the host keys.
merge_keys_raw(file, host_keys) == stripped_lines(file) \cup Range(host_keys)

\* A merge that forgets the keys in the file.
merge_keys_forgetting(file, host_keys) ==
    { Join(<< " " >>, Split(e, ":")) : e \in Range(host_keys) }

\* __add_host_keys: the keys in the file and one line per host key, its
\* colons turned into spaces.
merge_keys(file, host_keys) ==
    stripped_lines(file) \cup { Join(<< " " >>, Split(e, ":")) : e \in Range(host_keys) }

\* A known_hosts file the master's user starts with: lines of other hosts,
\* in no particular order.
ForeignKnownHosts == File(<< "h", "o", "s", "t", "n", " ", "r", "s", "a", " ", "K", "K", "\n", "h", "o", "s", "t", "m", " ", "r", "s", "a", " ", "M", "M", "\n" >>)

(***************************************************************************)
(* State                                                                   *)
(***************************************************************************)

NoHolder == 0

VARIABLES
    slaves_file,      \* /tmp/slaves-<master_ip> on the master
    known_hosts,      \* the known_hosts file of the master's user
    slaves_lock,      \* the session holding flock on slaves_file, or NoHolder
    known_hosts_lock, \* the session holding flock on known_hosts, or NoHolder
    sessions,         \* the sparkbox-manage-slaves processes, in order of start
    tagged,           \* the instances whose spark_master tag names the master
    symlinked,        \* the master has run __prepare_slaves_file
    \* the node that boots (SparkTools.start)
    instance_id,      \* meta-data/instance-id of the node
    pc,               \* where start( ) stands
    cloud_init_done,  \* /tmp/cloud-init.done exists
    master_id,        \* the memoized master_id, "" before it is computed
    master_ip,        \* the memoized master_ip, empty before it is computed
    reservations,     \* what each get_all_reservations( instance_ids=... ) returned
    etc_hosts,        \* the data of the node's /etc/hosts
    var_dirs,         \* __create_var_dirs has run
    host_key_tag,     \* the master's ssh_host_key tag, empty when there is none
    node_known_hosts, \* /etc/ssh/ssh_known_hosts of the node
    master_ssh_up,    \* spark-master accepts connections on port 22
    statuses,         \* the exit status of each ssh call of __register_with_master
    namenode_format,  \* the exit statuses of hdfs namenode -format
    emitted,          \* the events given to initctl emit
    error             \* the exception that ended start( ), "" when there is none

registry_vars == << slaves_file, known_hosts, slaves_lock, known_hosts_lock,
                    sessions, tagged, symlinked >>

boot_vars == << instance_id, pc, cloud_init_done, master_id, master_ip,
                reservations, etc_hosts, var_dirs, host_key_tag,
                node_known_hosts, master_ssh_up, statuses, namenode_format,
                emitted, error >>

vars == << registry_vars, boot_vars >>

Session(slaves_to_add) ==
    [ pc |-> "open", slaves_to_add |-> slaves_to_add, slaves |-> {}, keys |-> {} ]

\* A close that leaves the lock with the session that held it.
flock_kept(holder) == holder

\* The end of the with block closes the file, which releases its lock.
flock_released(holder) == NoHolder

\* A lock that is granted while another session holds it (LOCK_SH).
flock_shared(holder) == TRUE

\* fcntl.flock( f, LOCK_EX ) returns once no other open file holds the lock.
flock_granted(holder) == holder = NoHolder

(***************************************************************************)
(* The environment: tagging                                                *)
(***************************************************************************)

\* The provisioning system tags slave i with the master's instance ID.
tag_instance(i) ==
    /\ i \notin tagged
    /\ tagged' = tagged \cup { i }
    /\ UNCHANGED << slaves_file, known_hosts, slaves_lock, known_hosts_lock,
                    sessions, symlinked,
                    boot_vars >>

(***************************************************************************)
(* sparkbox-manage-slaves: SparkTools.manage_slaves, step by step          *)
(***************************************************************************)

\* A slave that has found its spark_master tag runs
\* "ssh spark-master sparkbox-manage-slaves ip:algo:key".
register_with_master(i) ==
    /\ Len(sessions) < MaxSessions
    /\ i \in tagged
    /\ sessions' = Append(sessions, Session(<< register_arg(i) >>))
    /\ UNCHANGED << slaves_file, known_hosts, slaves_lock, known_hosts_lock,
                    tagged, symlinked,
                    boot_vars >>

\* sparkbox-manage-slaves without arguments, on the master.
initialize_slaves ==
    /\ Len(sessions) < MaxSessions
    /\ sessions' = Append(sessions, Session(<<>>))
    /\ UNCHANGED << slaves_file, known_hosts, slaves_lock, known_hosts_lock,
                    tagged, symlinked,
                    boot_vars >>

\* with open( slaves_path, 'a+' ) as f
manage_slaves_open(s) ==
    /\ sessions[s].pc = "open"
    /\ slaves_file' = open_append(slaves_file)
    /\ sessions' = [ sessions EXCEPT ![s].pc = "flock" ]
    /\ UNCHANGED << known_hosts, slaves_lock, known_hosts_lock, tagged, symlinked,
                    boot_vars >>

\* fcntl.flock( f, fcntl.LOCK_EX ): blocks while another session holds it.
manage_slaves_flock(s) ==
    /\ sessions[s].pc = "flock"
    /\ flock_granted(slaves_lock)
    /\ slaves_lock' = s
    /\ sessions' = [ sessions EXCEPT ![s].pc = "read" ]
    /\ UNCHANGED << slaves_file, known_hosts, known_hosts_lock, tagged, symlinked,
                    boot_vars >>

\* if slaves_to_add: read and merge; else: list the tagged instances.
manage_slaves_read(s) ==
    /\ sessions[s].pc = "read"
    /\ sessions' = [ sessions EXCEPT
          ![s].pc = "write",
          ![s].slaves = IF sessions[s].slaves_to_add # <<>>
                        THEN merge_slaves(slaves_file, sessions[s].slaves_to_add)
                        ELSE list_slaves(tagged, Master) ]
    /\ UNCHANGED << slaves_file, known_hosts, slaves_lock, known_hosts_lock,
                    tagged, symlinked,
                    boot_vars >>

\* A file truncated before the instances are listed.
closed_truncated(file) == File(<<>>)

\* A file closed by the with block before line 108 was reached: nothing was
\* truncated or written, the data is what it was.
closed_unwritten(file) == file

\* ec2.get_all_reservations( filters=... ) raises: the exception leaves the
\* with block, which closes the file and so releases the lock, and ends the
\* process.
manage_slaves_query_fails(s) ==
    /\ sessions[s].pc = "read"
    /\ sessions[s].slaves_to_add = <<>>
    /\ slaves_file' = closed_unwritten(slaves_file)
    /\ slaves_lock' = flock_released(s)
    /\ sessions' = [ sessions EXCEPT ![s].pc = "failed" ]
    /\ UNCHANGED << known_hosts, known_hosts_lock, tagged, symlinked,
                    boot_vars >>

\* f.seek( 0 ); f.truncate( 0 ); f.write( ... ): the file is empty on disk and
\* the new content sits in the stream's buffer.
manage_slaves_write(s) ==
    /\ sessions[s].pc = "write"
    /\ slaves_file' = File(<<>>)
    /\ sessions' = [ sessions EXCEPT ![s].pc = "close" ]
    /\ UNCHANGED << known_hosts, slaves_lock, known_hosts_lock, tagged, symlinked,
                    boot_vars >>

\* The end of the with block: the buffer is flushed and the lock released.
manage_slaves_close(s) ==
    /\ sessions[s].pc = "close"
    /\ slaves_file' = File(canonical(sessions[s].slaves))
    /\ slaves_lock' = flock_released(s)
    /\ sessions' = [ sessions EXCEPT
          ![s].pc = IF sessions[s].slaves_to_add # <<>> THEN "kh_open" ELSE "done" ]
    /\ UNCHANGED << known_hosts, known_hosts_lock, tagged, symlinked,
                    boot_vars >>

(***************************************************************************)
(* SparkTools.__add_host_keys, called by manage_slaves, step by step       *)
(***************************************************************************)

\* with open( known_hosts_path, 'a+' ) as f
add_host_keys_open(s) ==
    /\ sessions[s].pc = "kh_open"
    /\ known_hosts' = open_append(known_hosts)
    /\ sessions' = [ sessions EXCEPT ![s].pc = "kh_flock" ]
    /\ UNCHANGED << slaves_file, slaves_lock, known_hosts_lock, tagged, symlinked,
                    boot_vars >>

add_host_keys_flock(s) ==
    /\ sessions[s].pc = "kh_flock"
    /\ flock_granted(known_hosts_lock)
    /\ known_hosts_lock' = s
    /\ sessions' = [ sessions EXCEPT ![s].pc = "kh_read" ]
    /\ UNCHANGED << slaves_file, known_hosts, slaves_lock, tagged, symlinked,
                    boot_vars >>

add_host_keys_read(s) ==
    /\ sessions[s].pc = "kh_read"
    /\ sessions' = [ sessions EXCEPT
          ![s].pc = "kh_write",
          ![s].keys = merge_keys(known_hosts, sessions[s].slaves_to_add) ]
    /\ UNCHANGED << slaves_file, known_hosts, slaves_lock, known_hosts_lock,
                    tagged, symlinked,
                    boot_vars >>

add_host_keys_write(s) ==
    /\ sessions[s].pc = "kh_write"
    /\ known_hosts' = File(<<>>)
    /\ sessions' = [ sessions EXCEPT ![s].pc = "kh_close" ]
    /\ UNCHANGED << slaves_file, slaves_lock, known_hosts_lock, tagged, symlinked,
                    boot_vars >>

add_host_keys_close(s) ==
    /\ sessions[s].pc = "kh_close"
    /\ known_hosts' = File(canonical(sessions[s].keys))
    /\ known_hosts_lock' = flock_released(s)
    /\ sessions' = [ sessions EXCEPT ![s].pc = "done" ]
    /\ UNCHANGED << slaves_file, slaves_lock, tagged, symlinked,
                    boot_vars >>

(***************************************************************************)
(* SparkTools.start: the boot of one node                                  *)
(***************************************************************************)

\* Instances one get_all_reservations call returns, at most.
MaxReturned == 2

\* for tries in range( 5 )
RegisterTries == 5

\* Exit statuses of a child process: success, a failed command, a failed ssh.
ExitCodes == { 0, 1, 255 }

\* What get_all_reservations( instance_ids=[ master_id ] ) may return: the
\* instances of all reservations, in order.
ReservationResults ==
    UNION { [ 1..n -> { Master, "i-w2" } ] : n \in 0..MaxReturned }

\* meta-data/local-ipv4 of the node.
node_ip == private_ip_address(instance_id)

\* A lookup that gives the master's ID for an instance without the tag.
spark_master_tag_guessed(i) == Master

\* __get_instance_tag( instance, 'spark_master' ): the tag's value, "" for None.
spark_master_tag(i) == IF i \in tagged THEN Master ELSE ""

\* A lookup without the assert: the first instance with the master's ID.
find_master_first(instances, id) ==
    LET matching == SelectSeq(instances, LAMBDA i : i = id) IN
    IF matching = <<>> THEN [ error |-> "StopIteration", ip |-> <<>> ]
    ELSE [ error |-> "", ip |-> private_ip_address(matching[1]) ]

\* master_ip, slave branch: the one instance with the master's ID among those
\* returned; next( ) and the assert raise when there is none or another one.
find_master(instances, id) ==
    LET matching == SelectSeq(instances, LAMBDA i : i = id) IN
    IF matching = <<>> THEN [ error |-> "StopIteration", ip |-> <<>> ]
    ELSE IF Len(matching) > 1 THEN [ error |-> "AssertionError", ip |-> <<>> ]
    ELSE [ error |-> "", ip |-> private_ip_address(matching[1]) ]

\* A branch with its two arms swapped.
node_type_swapped == IF master_ip = node_ip THEN "slave" ELSE "master"

\* start( ): the branch taken.
node_type == IF master_ip = node_ip THEN "master" ELSE "slave"

\* A start( ) whose slave branch emits the event before it registers.
start_order_emit_first(type) ==
    << "cloud_init", "master_id", "master_ip", "patch_etc_hosts", "create_var_dirs" >>
    \o ( IF type = "master"
         THEN << "publish_host_key", "prepare_slaves_file", "format_namenode", "emit" >>
         ELSE << "get_master_host_key", "wait_for_master_ssh", "emit", "register_with_master" >> )
    \o << "done" >>

\* The steps of start( ) in program order, for either branch.
start_order(type) ==
    << "cloud_init", "master_id", "master_ip", "patch_etc_hosts", "create_var_dirs" >>
    \o ( IF type = "master"
         THEN << "publish_host_key", "prepare_slaves_file", "format_namenode" >>
         ELSE << "get_master_host_key", "wait_for_master_ssh", "register_with_master" >> )
    \o << "emit", "done" >>

\* The step that follows step in start( ).
step_after(step, type) ==
    LET order == start_order(type)
        i == CHOOSE j \in 1..Len(order) : order[j] = step
    IN order[i + 1]

\* host in line
Contains(line, sub) ==
    \E i \in 1..(Len(line) - Len(sub) + 1) : SubSeq(line, i, i + Len(sub) - 1) = sub

spark_master == << "s", "p", "a", "r", "k", "-", "m", "a", "s", "t", "e", "r" >>
spark_node == << "s", "p", "a", "r", "k", "-", "n", "o", "d", "e" >>

\* __patch_etc_hosts( hosts ): hosts is the dict's items in iteration order,
\* each << host, ip >> with an empty ip for None.
patch_etc_hosts(data, hosts) ==
    LET kept == SelectSeq(ReadLines(data),
                    LAMBDA line : ~ \E h \in Range(hosts) : Contains(line, h[1]))
        given == SelectSeq(hosts, LAMBDA h : h[2] # <<>>)
        added == [ k \in 1..Len(given) |-> given[k][2] \o << " " >> \o given[k][1] \o << "\n" >> ]
    IN Join(<<>>, kept \o added)

\* The iteration orders of a dict with the two aliases as keys.
hosts_items(ip_master, ip_node) ==
    { << << spark_master, ip_master >>, << spark_node, ip_node >> >>,
      << << spark_node, ip_node >>, << spark_master, ip_master >> >> }

\* /etc/hosts of a fresh instance, and of one that was patched before.
EtcHostsFresh == << "1", "0", ".", "0", ".", "0", ".", "9", " ", "h", "o", "s", "t", "n", "\n" >>
EtcHostsStale == << "1", "0", ".", "0", ".", "0", ".", "9", " ", "h", "o", "s", "t", "n", "\n", "1", "0", ".", "0", ".", "0", ".", "9", " ", "s", "p", "a", "r", "k", "-", "m", "a", "s", "t", "e", "r", "\n", "1", "0", ".", "0", ".", "0", ".", "9", " ", "s", "p", "a", "r", "k", "-", "n", "o", "d", "e", "\n" >>

\* /etc/hosts whose last line has no line end.
EtcHostsUnterminated == << "1", "0", ".", "0", ".", "0", ".", "9", " ", "h", "o", "s", "t", "n" >>

\* manage_slaves( slaves_to_add ) from its first line to its last, for a
\* session that runs alone.
manage_slaves_file(file, slaves_to_add) ==
    File(canonical(IF slaves_to_add # <<>>
                   THEN merge_slaves(open_append(file), slaves_to_add)
                   ELSE list_slaves(tagged, Master)))

\* An __add_host_keys that keeps the colons of the host keys.
add_host_keys_raw(file, host_keys) ==
    File(canonical(merge_keys_raw(open_append(file), host_keys)))

\* __add_host_keys( host_keys ) from its first line to its last, for a call
\* that runs alone.
add_host_keys(file, host_keys) == File(canonical(merge_keys(open_append(file), host_keys)))

\* cloud-init ends and leaves /tmp/cloud-init.done.
cloud_init_finishes ==
    /\ ~ cloud_init_done
    /\ cloud_init_done' = TRUE
    /\ UNCHANGED << registry_vars, instance_id, pc, master_id, master_ip,
                    reservations, etc_hosts, var_dirs, host_key_tag,
                    node_known_hosts, master_ssh_up, statuses, namenode_format,
                    emitted, error >>

\* The master's sshd starts to accept connections.
master_ssh_comes_up ==
    /\ ~ master_ssh_up
    /\ master_ssh_up' = TRUE
    /\ UNCHANGED << registry_vars, instance_id, pc, cloud_init_done, master_id,
                    master_ip, reservations, etc_hosts, var_dirs, host_key_tag,
                    node_known_hosts, statuses, namenode_format, emitted, error >>

\* while not os.path.exists( '/tmp/cloud-init.done' ): sleep
start_wait_for_cloud_init ==
    /\ pc = "cloud_init"
    /\ cloud_init_done
    /\ pc' = step_after(pc, node_type)
    /\ UNCHANGED << registry_vars, instance_id, cloud_init_done, master_id,
                    master_ip, reservations, etc_hosts, var_dirs, host_key_tag,
                    node_known_hosts, master_ssh_up, statuses, namenode_format,
                    emitted, error >>

\* master_id: loops until the instance carries the spark_master tag.
start_master_id ==
    /\ pc = "master_id"
    /\ spark_master_tag(instance_id) # ""
    /\ master_id' = spark_master_tag(instance_id)
    /\ pc' = step_after(pc, node_type)
    /\ UNCHANGED << registry_vars, instance_id, cloud_init_done, master_ip,
                    reservations, etc_hosts, var_dirs, host_key_tag,
                    node_known_hosts, master_ssh_up, statuses, namenode_format,
                    emitted, error >>

\* A master_ip that asks EC2 on every node.
i_am_never_the_master(id, own_id) == FALSE

\* if self.master_id == self.instance_id
i_am_the_master(id, own_id) == id = own_id

\* master_ip
start_master_ip ==
    /\ pc = "master_ip"
    /\ IF i_am_the_master(master_id, instance_id)
       THEN /\ master_ip' = node_ip
            /\ pc' = step_after(pc, node_type)
            /\ UNCHANGED << reservations, error >>
       ELSE \E instances \in ReservationResults :
              LET found == find_master(instances, master_id) IN
              /\ reservations' = Append(reservations, instances)
              /\ master_ip' = found.ip
              /\ error' = found.error
              /\ pc' = IF found.error = "" THEN step_after(pc, node_type) ELSE "failed"
    /\ UNCHANGED << registry_vars, instance_id, cloud_init_done, master_id,
                    etc_hosts, var_dirs, host_key_tag, node_known_hosts,
                    master_ssh_up, statuses, namenode_format, emitted >>

\* self.__patch_etc_hosts( { 'spark-master': master_ip, 'spark-node': node_ip } )
start_patch_etc_hosts ==
    /\ pc = "patch_etc_hosts"
    /\ \E hosts \in hosts_items(master_ip, node_ip) :
          etc_hosts' = patch_etc_hosts(etc_hosts, hosts)
    /\ pc' = step_after(pc, node_type)
    /\ UNCHANGED << registry_vars, instance_id, cloud_init_done, master_id,
                    master_ip, reservations, var_dirs, host_key_tag,
                    node_known_hosts, master_ssh_up, statuses, namenode_format,
                    emitted, error >>

\* self.__create_var_dirs( lazy_dirs ), then the branch on master_ip == node_ip
start_create_var_dirs ==
    /\ pc = "create_var_dirs"
    /\ var_dirs' = TRUE
    /\ pc' = step_after(pc, node_type)
    /\ UNCHANGED << registry_vars, instance_id, cloud_init_done, master_id,
                    master_ip, reservations, etc_hosts, host_key_tag,
                    node_known_hosts, master_ssh_up, statuses, namenode_format,
                    emitted, error >>

\* __publish_host_key: the master's host key becomes its ssh_host_key tag.
start_publish_host_key ==
    /\ pc = "publish_host_key"
    /\ host_key_tag' = get_host_key(instance_id)
    /\ pc' = step_after(pc, node_type)
    /\ UNCHANGED << registry_vars, instance_id, cloud_init_done, master_id,
                    master_ip, reservations, etc_hosts, var_dirs,
                    node_known_hosts, master_ssh_up, statuses, namenode_format,
                    emitted, error >>

\* __prepare_slaves_file
start_prepare_slaves_file ==
    /\ pc = "prepare_slaves_file"
    /\ slaves_file' = open_append(slaves_file)
    /\ symlinked' = TRUE
    /\ pc' = step_after(pc, node_type)
    /\ UNCHANGED << known_hosts, slaves_lock, known_hosts_lock, sessions, tagged,
                    instance_id, cloud_init_done, master_id, master_ip,
                    reservations, etc_hosts, var_dirs, host_key_tag,
                    node_known_hosts, master_ssh_up, statuses, namenode_format,
                    emitted, error >>

\* A call that raises on an exit status other than 0, as check_call does.
call_raises_on_failure(returncode) == returncode # 0

\* subprocess.call returns the exit status, whatever it is, and raises
\* nothing for it.
call_raises(returncode) == FALSE

\* __format_namenode: call( ), whose exit status is not looked at.
start_format_namenode ==
    /\ pc = "format_namenode"
    /\ \E status \in ExitCodes :
          /\ namenode_format' = Append(namenode_format, status)
          /\ IF call_raises(status)
             THEN error' = "CalledProcessError" /\ pc' = "failed"
             ELSE error' = error /\ pc' = step_after(pc, node_type)
    /\ UNCHANGED << registry_vars, instance_id, cloud_init_done, master_id,
                    master_ip, reservations, etc_hosts, var_dirs, host_key_tag,
                    node_known_hosts, master_ssh_up, statuses, emitted >>

\* __get_master_host_key
start_get_master_host_key ==
    /\ pc = "get_master_host_key"
    /\ node_known_hosts' =
          IF host_key_tag # <<>>
          THEN add_host_keys(node_known_hosts, << spark_master \o << ":" >> \o host_key_tag >>)
          ELSE node_known_hosts
    /\ pc' = step_after(pc, node_type)
    /\ UNCHANGED << registry_vars, instance_id, cloud_init_done, master_id,
                    master_ip, reservations, etc_hosts, var_dirs, host_key_tag,
                    master_ssh_up, statuses, namenode_format, emitted, error >>

\* __wait_for_master_ssh: connects until a connection succeeds.
start_wait_for_master_ssh ==
    /\ pc = "wait_for_master_ssh"
    /\ master_ssh_up
    /\ pc' = step_after(pc, node_type)
    /\ UNCHANGED << registry_vars, instance_id, cloud_init_done, master_id,
                    master_ip, reservations, etc_hosts, var_dirs, host_key_tag,
                    node_known_hosts, master_ssh_up, statuses, namenode_format,
                    emitted, error >>

\* A loop over range( 4 ).
register_goes_on_short(tries) == tries < RegisterTries - 1

\* The loop of __register_with_master goes on: range( 5 ) is not used up.
register_goes_on(tries) == tries < RegisterTries

\* if 0 == status_code: return
register_returns(status_code) == status_code = 0

\* One turn of the loop of __register_with_master: the ssh call and its exit
\* status. Status 0: the master ran manage_slaves; 1: manage_slaves wrote the
\* slaves file and failed on the host keys; 255: ssh did not reach the master.
start_register_with_master ==
    /\ pc = "register_with_master"
    /\ register_goes_on(Len(statuses))
    /\ \E status_code \in ExitCodes :
          /\ statuses' = Append(statuses, status_code)
          /\ slaves_file' = IF status_code \in { 0, 1 }
                            THEN manage_slaves_file(slaves_file, << register_arg(instance_id) >>)
                            ELSE slaves_file
          /\ known_hosts' = IF status_code = 0
                            THEN add_host_keys(known_hosts, << register_arg(instance_id) >>)
                            ELSE known_hosts
          /\ pc' = IF register_returns(status_code) THEN step_after(pc, node_type) ELSE pc
    /\ UNCHANGED << slaves_lock, known_hosts_lock, sessions, tagged, symlinked,
                    instance_id, cloud_init_done, master_id, master_ip,
                    reservations, etc_hosts, var_dirs, host_key_tag,
                    node_known_hosts, master_ssh_up, namenode_format, emitted, error >>

\* raise RuntimeError( "Failed to register with master" )
start_register_failed ==
    /\ pc = "register_with_master"
    /\ ~ register_goes_on(Len(statuses))
    /\ error' = "RuntimeError"
    /\ pc' = "failed"
    /\ UNCHANGED << registry_vars, instance_id, cloud_init_done, master_id,
                    master_ip, reservations, etc_hosts, var_dirs, host_key_tag,
                    node_known_hosts, master_ssh_up, statuses, namenode_format,
                    emitted >>

\* check_call( [ initctl, 'emit', 'sparkbox-start-%s' % node_type ] )
start_emit ==
    /\ pc = "emit"
    /\ \E returncode \in { 0, 1 } :
          IF returncode = 0
          THEN /\ emitted' = Append(emitted, IF node_type = "master"
                                             THEN "sparkbox-start-master"
                                             ELSE "sparkbox-start-slave")
               /\ pc' = step_after(pc, node_type)
               /\ UNCHANGED error
          ELSE /\ error' = "CalledProcessError"
               /\ pc' = "failed"
               /\ UNCHANGED emitted
    /\ UNCHANGED << registry_vars, instance_id, cloud_init_done, master_id,
                    master_ip, reservations, etc_hosts, var_dirs, host_key_tag,
                    node_known_hosts, master_ssh_up, statuses, namenode_format >>

\* SparkTools.stop, once the node runs
stop ==
    /\ pc = "done"
    /\ \E hosts \in hosts_items(<<>>, <<>>) :
          etc_hosts' = patch_etc_hosts(etc_hosts, hosts)
    /\ pc' = "stopped"
    /\ UNCHANGED << registry_vars, instance_id, cloud_init_done, master_id,
                    master_ip, reservations, var_dirs, host_key_tag,
                    node_known_hosts, master_ssh_up, statuses, namenode_format,
                    emitted, error >>

(***************************************************************************)
(* Spec: the sessions of sparkbox-manage-slaves on the master, while the   *)
(* master's start( ) stands before __prepare_slaves_file                   *)
(***************************************************************************)

Init ==
    /\ slaves_file = NoFile
    /\ known_hosts = ForeignKnownHosts
    /\ slaves_lock = NoHolder
    /\ known_hosts_lock = NoHolder
    /\ sessions = <<>>
    /\ tagged = { Master }
    /\ symlinked = FALSE
    /\ instance_id = Master
    /\ pc = "prepare_slaves_file"
    /\ cloud_init_done = TRUE
    /\ master_id = Master
    /\ master_ip = private_ip_address(Master)
    /\ reservations = <<>>
    /\ etc_hosts = patch_etc_hosts(EtcHostsFresh,
                        << << spark_master, private_ip_address(Master) >>,
                           << spark_node, private_ip_address(Master) >> >>)
    /\ var_dirs = TRUE
    /\ host_key_tag = get_host_key(Master)
    /\ node_known_hosts = NoFile
    /\ master_ssh_up = TRUE
    /\ statuses = <<>>
    /\ namenode_format = <<>>
    /\ emitted = <<>>
    /\ error = ""

Next ==
    \/ \E i \in Workers : tag_instance(i)
    \/ start_prepare_slaves_file
    \/ \E i \in Workers : register_with_master(i)
    \/ initialize_slaves
    \/ \E s \in 1..Len(sessions) : manage_slaves_open(s)
    \/ \E s \in 1..Len(sessions) : manage_slaves_flock(s)
    \/ \E s \in 1..Len(sessions) : manage_slaves_read(s)
    \/ \E s \in 1..Len(sessions) : manage_slaves_query_fails(s)
    \/ \E s \in 1..Len(sessions) : manage_slaves_write(s)
    \/ \E s \in 1..Len(sessions) : manage_slaves_close(s)
    \/ \E s \in 1..Len(sessions) : add_host_keys_open(s)
    \/ \E s \in 1..Len(sessions) : add_host_keys_flock(s)
    \/ \E s \in 1..Len(sessions) : add_host_keys_read(s)
    \/ \E s \in 1..Len(sessions) : add_host_keys_write(s)
    \/ \E s \in 1..Len(sessions) : add_host_keys_close(s)

Spec == Init /\ [][Next]_vars

(***************************************************************************)
(* SpecFair: the sessions, each scheduled fairly: a session that can take  *)
(* a step from some moment on takes one (a session blocked in flock takes  *)
(* it once the lock stays free)                                            *)
(***************************************************************************)

\* A step of session s.
session_step(s) ==
    /\ s \in 1..Len(sessions)
    /\ \/ manage_slaves_open(s)
       \/ manage_slaves_flock(s)
       \/ manage_slaves_read(s)
       \/ manage_slaves_query_fails(s)
       \/ manage_slaves_write(s)
       \/ manage_slaves_close(s)
       \/ add_host_keys_open(s)
       \/ add_host_keys_flock(s)
       \/ add_host_keys_read(s)
       \/ add_host_keys_write(s)
       \/ add_host_keys_close(s)

\* As Init, with two slaves tagged already and no known_hosts file yet: the
\* first __add_host_keys creates it.
FairInit ==
    /\ slaves_file = NoFile
    /\ known_hosts = NoFile
    /\ slaves_lock = NoHolder
    /\ known_hosts_lock = NoHolder
    /\ sessions = <<>>
    /\ tagged = { Master, "i-w1", "i-w2" }
    /\ symlinked = FALSE
    /\ instance_id = Master
    /\ pc = "prepare_slaves_file"
    /\ cloud_init_done = TRUE
    /\ master_id = Master
    /\ master_ip = private_ip_address(Master)
    /\ reservations = <<>>
    /\ etc_hosts = patch_etc_hosts(EtcHostsFresh,
                        << << spark_master, private_ip_address(Master) >>,
                           << spark_node, private_ip_address(Master) >> >>)
    /\ var_dirs = TRUE
    /\ host_key_tag = get_host_key(Master)
    /\ node_known_hosts = NoFile
    /\ master_ssh_up = TRUE
    /\ statuses = <<>>
    /\ namenode_format = <<>>
    /\ emitted = <<>>
    /\ error = ""

\* The sessions alone: registrations of the tagged slaves, initializations,
\* and their steps.
FairNext ==
    \/ \E i \in Workers : register_with_master(i)
    \/ initialize_slaves
    \/ \E s \in 1..Len(sessions) : session_step(s)

SpecFair ==
    /\ FairInit
    /\ [][FairNext]_vars
    /\ \A s \in 1..MaxSessions : WF_vars(session_step(s))

(***************************************************************************)
(* SpecSeed: the master's start( ) from __prepare_slaves_file to its end,  *)
(* while slaves register; one slave may have registered before             *)
(***************************************************************************)

SeedInit ==
    /\ slaves_file \in { NoFile, File(<< "1", "0", ".", "0", ".", "0", ".", "3", "\n" >>) }
    /\ known_hosts = NoFile
    /\ slaves_lock = NoHolder
    /\ known_hosts_lock = NoHolder
    /\ sessions = <<>>
    /\ tagged = { Master, "i-w1", "i-w2" }
    /\ symlinked = FALSE
    /\ instance_id = Master
    /\ pc = "prepare_slaves_file"
    /\ cloud_init_done = TRUE
    /\ master_id = Master
    /\ master_ip = private_ip_address(Master)
    /\ reservations = <<>>
    /\ etc_hosts = patch_etc_hosts(EtcHostsFresh,
                        << << spark_master, private_ip_address(Master) >>,
                           << spark_node, private_ip_address(Master) >> >>)
    /\ var_dirs = TRUE
    /\ host_key_tag = get_host_key(Master)
    /\ node_known_hosts = NoFile
    /\ master_ssh_up = TRUE
    /\ statuses = <<>>
    /\ namenode_format = <<>>
    /\ emitted = <<>>
    /\ error = ""

SeedNext ==
    \/ start_prepare_slaves_file
    \/ start_format_namenode
    \/ start_emit
    \/ \E i \in Workers : register_with_master(i)
    \/ \E s \in 1..Len(sessions) : manage_slaves_open(s)
    \/ \E s \in 1..Len(sessions) : manage_slaves_flock(s)
    \/ \E s \in 1..Len(sessions) : manage_slaves_read(s)
    \/ \E s \in 1..Len(sessions) : manage_slaves_write(s)
    \/ \E s \in 1..Len(sessions) : manage_slaves_close(s)
    \/ \E s \in 1..Len(sessions) : add_host_keys_open(s)
    \/ \E s \in 1..Len(sessions) : add_host_keys_flock(s)
    \/ \E s \in 1..Len(sessions) : add_host_keys_read(s)
    \/ \E s \in 1..Len(sessions) : add_host_keys_write(s)
    \/ \E s \in 1..Len(sessions) : add_host_keys_close(s)

SpecSeed == SeedInit /\ [][SeedNext]_vars

(***************************************************************************)
(* SpecBoot: one node, the master or a slave, from the start of start( )   *)
(***************************************************************************)

BootInit ==
    /\ slaves_file \in { NoFile, File(<< "1", "0", ".", "0", ".", "0", ".", "3", "\n" >>) }
    /\ known_hosts = NoFile
    /\ slaves_lock = NoHolder
    /\ known_hosts_lock = NoHolder
    /\ sessions = <<>>
    /\ tagged = {}
    /\ symlinked = FALSE
    /\ instance_id \in { Master, "i-w1" }
    /\ pc = "cloud_init"
    /\ cloud_init_done = FALSE
    /\ master_id = ""
    /\ master_ip = <<>>
    /\ reservations = <<>>
    /\ etc_hosts \in { EtcHostsFresh, EtcHostsStale, EtcHostsUnterminated }
    /\ var_dirs = FALSE
    /\ host_key_tag \in { <<>> } \cup
                        ( IF instance_id = Master THEN {} ELSE { get_host_key(Master) } )
    /\ node_known_hosts \in { NoFile, ForeignKnownHosts }
    /\ master_ssh_up = FALSE
    /\ statuses = <<>>
    /\ namenode_format = <<>>
    /\ emitted = <<>>
    /\ error = ""

BootNext ==
    \/ cloud_init_finishes
    \/ tag_instance(instance_id)
    \/ master_ssh_comes_up
    \/ start_wait_for_cloud_init
    \/ start_master_id
    \/ start_master_ip
    \/ start_patch_etc_hosts
    \/ start_create_var_dirs
    \/ start_publish_host_key
    \/ start_prepare_slaves_file
    \/ start_format_namenode
    \/ start_get_master_host_key
    \/ start_wait_for_master_ssh
    \/ start_register_with_master
    \/ start_register_failed
    \/ start_emit
    \/ stop

SpecBoot == BootInit /\ [][BootNext]_vars

(***************************************************************************)
(* SpecBootFair: SpecBoot with a start( ) that keeps running: the loop of  *)
(* master_id polls again after every sleep                                 *)
(***************************************************************************)

SpecBootFair == SpecBoot /\ WF_vars(start_master_id)

(***************************************************************************)
(* The properties                                                          *)
(***************************************************************************)

\* The IPs in a slaves file, and those in the slaves file of the state.
IPsIn(file) == stripped_lines(file) \ { <<>> }
SlaveIPs == IPsIn(slaves_file)

Sessions == 1..Len(sessions)
IsRegister(s) == sessions[s].slaves_to_add # <<>>
IsDone(s) == sessions[s].pc = "done"
AllDone == sessions # <<>> /\ \A s \in Sessions : IsDone(s)

\* Session s registers slave i.
Registers(s, i) == sessions[s].slaves_to_add = << register_arg(i) >>

\* The slaves whose registration has run to its end.
Registered == { i \in Workers : \E s \in Sessions : Registers(s, i) /\ IsDone(s) }

\* Session s is between its flock on the slaves file and the close of it.
InSlavesFile(s) == sessions[s].pc \in { "read", "write", "close" }

\* C1: among concurrent registrations at most one session at a time is
\* between locking the slaves file and closing it, and once every session
\* has ended the file holds the IP of every slave that registered.
C1_ExclusiveNoLostUpdate ==
    /\ Cardinality({ s \in Sessions : InSlavesFile(s) }) <= 1
    /\ AllDone => \A i \in Registered : private_ip_address(i) \in SlaveIPs

C1_Witness ==
    /\ AllDone
    /\ Len(sessions) = 2
    /\ Registers(1, "i-w2") /\ Registers(2, "i-w1")
    /\ SlaveIPs = { private_ip_address("i-w1"), private_ip_address("i-w2") }

\* C2: once every session has ended, the data of the slaves file is one
\* function of the set of IPs registered (and listed): the IPs in ascending
\* order, each once and each followed by a line end, whatever the order of
\* the sessions and however often an IP was registered.
C2_ContentOfSetOnly ==
    AllDone =>
        slaves_file.data =
            canonical({ private_ip_address(i) : i \in Registered }
                      \cup UNION { sessions[s].slaves : s \in { t \in Sessions : ~ IsRegister(t) } })

\* The slave with the greater IP wrote first, the other one after it.
C2_Witness ==
    /\ AllDone
    /\ Len(sessions) = 2
    /\ Registers(1, "i-w2") /\ sessions[1].slaves = { private_ip_address("i-w2") }
    /\ Registers(2, "i-w1")
    /\ slaves_file.data = << "1", "0", ".", "0", ".", "0", ".", "2", "\n", "1", "0", ".", "0", ".", "0", ".", "3", "\n" >>

\* A session without arguments has run to its end.
Initialized == \E s \in Sessions : ~ IsRegister(s) /\ IsDone(s)

\* C3: after an initialization, a registration removes no IP: the IPs in the
\* file when the session truncates it are all among those it writes back, the
\* file holds them all when the session closes it, and no other step of the
\* session changes the data of the file.
C3_RegistrationKeepsIPs ==
    [][ \A s \in Sessions :
          ( Initialized /\ IsRegister(s) /\ sessions'[s].pc # sessions[s].pc ) =>
             CASE sessions[s].pc = "write" -> SlaveIPs \subseteq sessions[s].slaves
               [] sessions[s].pc = "close" -> sessions[s].slaves \ { <<>> } \subseteq IPsIn(slaves_file')
               [] OTHER -> slaves_file'.data = slaves_file.data ]_vars

C3_Witness ==
    /\ AllDone
    /\ Len(sessions) = 2
    /\ ~ IsRegister(1) /\ sessions[1].slaves = { private_ip_address("i-w2") }
    /\ Registers(2, "i-w1")
    /\ SlaveIPs = { private_ip_address("i-w1"), private_ip_address("i-w2") }

\* C4: whatever the order in which an initialization and the registrations
\* reach the slaves file, once a registration and an initialization have
\* ended and nobody holds the file, the file holds the registered IP.
C4_AnyArrivalOrder ==
    \A r \in Sessions, i \in Workers :
        ( /\ Registers(r, i)
          /\ sessions[r].pc \notin { "open", "flock", "read", "write", "close" }
          /\ Initialized
          /\ slaves_lock = NoHolder )
        => private_ip_address(i) \in SlaveIPs

\* The registration wrote before the initialization did: the initialization
\* listed a slave the registration never saw.
C4_Witness ==
    /\ AllDone
    /\ Len(sessions) = 2
    /\ Registers(1, "i-w1")
    /\ ~ IsRegister(2) /\ ~ ( sessions[2].slaves \subseteq sessions[1].slaves )
    /\ private_ip_address("i-w1") \in SlaveIPs

\* start( ) is past __register_with_master.
Registration_returned == pc \in { "emit", "done", "stopped" } \/ error = "CalledProcessError"

\* C5: the registration command runs at most 5 times and never again after
\* an exit status of 0; on a slave start( ) gets past the registration only
\* with a last status of 0, and the RuntimeError is raised exactly when five
\* runs have failed.
C5_RegistrationRetries ==
    /\ Len(statuses) <= 5
    /\ \A k \in 1..(Len(statuses) - 1) : statuses[k] # 0
    /\ ( instance_id # Master /\ Registration_returned ) =>
          ( statuses # <<>> /\ statuses[Len(statuses)] = 0 )
    /\ ( statuses # <<>> /\ statuses[Len(statuses)] = 0 ) => Registration_returned
    /\ error = "RuntimeError" <=>
          ( pc = "failed" /\ Len(statuses) = 5 /\ \A k \in 1..5 : statuses[k] # 0 )

\* Four failures, then success.
C5_Witness ==
    /\ statuses = << 255, 255, 1, 1, 0 >>
    /\ pc = "done"
    /\ error = ""
    /\ emitted = << "sparkbox-start-slave" >>

\* The state of the spec's boot state machine that a step of start( ) belongs
\* to; the lookups of master_id and master_ip and the creation of the
\* directories surround the patch of /etc/hosts and count with it.
Phase(step) ==
    CASE step = "cloud_init" -> "WaitingForBaseSystem"
      [] step \in { "master_id", "master_ip", "patch_etc_hosts", "create_var_dirs" }
                                          -> "PatchingHosts"
      [] step = "publish_host_key"        -> "Publishing"
      [] step = "prepare_slaves_file"     -> "SeedingMembership"
      [] step = "format_namenode"         -> "FormattingStorage"
      [] step = "get_master_host_key"     -> "FetchingMasterKey"
      [] step = "wait_for_master_ssh"     -> "WaitingForMasterReachable"
      [] step = "register_with_master"    -> "Registering"
      [] step = "emit"                    -> "ServicesStarting"
      [] step \in { "done", "stopped" }   -> "Done"
      [] OTHER                            -> "Aborted"

StatedTransitions ==
    { << "WaitingForBaseSystem", "PatchingHosts" >>,
      << "PatchingHosts", "Publishing" >>,
      << "Publishing", "SeedingMembership" >>,
      << "SeedingMembership", "FormattingStorage" >>,
      << "FormattingStorage", "ServicesStarting" >>,
      << "PatchingHosts", "FetchingMasterKey" >>,
      << "FetchingMasterKey", "WaitingForMasterReachable" >>,
      << "WaitingForMasterReachable", "Registering" >>,
      << "Registering", "ServicesStarting" >>,
      << "ServicesStarting", "Done" >> }

\* "spark-master algo key" and "ip algo key" for the host key of instance i.
AliasKeyLine(i) ==
    Join(<< " " >>, << spark_master >> \o FirstTwo(Words(ssh_host_ecdsa_key_pub(i))))
IpKeyLine(i) ==
    Join(<< " " >>, << private_ip_address(i) >> \o FirstTwo(Words(ssh_host_ecdsa_key_pub(i))))

\* What every step before the event has left behind, on either branch.
StepsBeforeEmitDone ==
    /\ cloud_init_done
    /\ master_id = Master
    /\ master_ip = private_ip_address(Master)
    /\ pc # "stopped" =>
          Contains(etc_hosts, master_ip \o << " " >> \o spark_master \o << "\n" >>)
    /\ var_dirs
    /\ IF instance_id = Master
       THEN /\ emitted = << "sparkbox-start-master" >>
            /\ host_key_tag = get_host_key(Master)
            /\ slaves_file.exists /\ symlinked
            /\ Len(namenode_format) = 1
            /\ statuses = <<>>
       ELSE /\ emitted = << "sparkbox-start-slave" >>
            /\ host_key_tag # <<>> => AliasKeyLine(Master) \in stripped_lines(node_known_hosts)
            /\ master_ssh_up
            /\ statuses # <<>> /\ statuses[Len(statuses)] = 0
            /\ private_ip_address(instance_id) \in SlaveIPs
            /\ namenode_format = <<>>

\* C6: start( ) passes through the states of the boot state machine in the
\* stated order or aborts; the event is emitted at most once, and only with
\* every earlier step of the node's branch done; after the RuntimeError of a
\* registration that used up its tries no event is emitted.
C6_BootOrder ==
    /\ [] ( /\ Len(emitted) <= 1
            /\ emitted # <<>> => ( StepsBeforeEmitDone /\ pc \in { "done", "stopped" } )
            /\ pc \in { "done", "stopped" } => emitted # <<>>
            /\ error = "RuntimeError" => ( emitted = <<>> /\ pc = "failed" ) )
    /\ [][ \/ Phase(pc') = Phase(pc)
           \/ << Phase(pc), Phase(pc') >> \in StatedTransitions
           \/ ( pc' = "failed" /\ Phase(pc) \notin { "Done", "Aborted" } ) ]_vars

C6_Witness ==
    /\ instance_id = "i-w1"
    /\ pc = "done"
    /\ emitted = << "sparkbox-start-slave" >>
    /\ Len(statuses) = 3

\* The number of instances with the given ID among those returned.
Matches(instances, id) == Cardinality({ k \in 1..Len(instances) : instances[k] = id })

\* C7: when the instances returned for the master's ID hold exactly one with
\* that ID, master_ip is that instance's private IP; when they hold none or
\* several, master_ip raises (StopIteration or AssertionError, the spec's
\* AmbiguousTopology), start( ) ends there and no IP is returned.
C7_MasterIpLookup ==
    \A q \in 1..Len(reservations) :
        IF Matches(reservations[q], master_id) = 1
        THEN /\ master_ip = private_ip_address(master_id)
             /\ error \notin { "StopIteration", "AssertionError" }
        ELSE /\ master_ip = <<>>
             /\ pc = "failed"
             /\ error = IF Matches(reservations[q], master_id) = 0
                        THEN "StopIteration" ELSE "AssertionError"

\* Two instances with the master's ID were returned.
C7_Witness ==
    /\ reservations = << << Master, Master >> >>
    /\ master_ip = <<>>
    /\ error = "AssertionError"

\* C8: on the node whose ID the spark_master tag names, master_ip is the
\* node's own private IP and get_all_reservations has not been called.
C8_MasterResolvesItself ==
    ( master_id = instance_id /\ pc \notin { "cloud_init", "master_id", "master_ip" } )
    => ( master_ip = node_ip /\ master_ip # <<>> /\ reservations = <<>> )

C8_Witness ==
    /\ instance_id = Master
    /\ master_id = Master
    /\ pc = "done"
    /\ master_ip = << "1", "0", ".", "0", ".", "0", ".", "1" >>
    /\ reservations = <<>>

\* The lines of the master's known_hosts file.
KnownHostsLines == stripped_lines(known_hosts) \ { <<>> }

\* Every line ends with a line end and is greater than the line before it.
StrictlyAscending(lines) ==
    /\ \A k \in 1..Len(lines) : lines[k][Len(lines[k])] = "\n"
    /\ \A k \in 1..(Len(lines) - 1) : StrLess(Strip(lines[k]), Strip(lines[k + 1]))

\* C9 as stated: a registration of "ip:algo:key" that has ended has left the
\* line "spark-master algo key" in the master's known_hosts file.
C9_AliasLineAdded ==
    known_hosts_lock = NoHolder =>
        \A i \in Registered : AliasKeyLine(i) \in KnownHostsLines

\* C9, amended: a registration of "ip:algo:key" that has ended has left the
\* line "ip algo key" in the master's known_hosts file; the file then holds
\* its earlier lines and one such line per registered slave, each line once
\* and in ascending order.
C9_IpLineAdded ==
    ( known_hosts_lock = NoHolder /\ Registered # {} ) =>
        /\ KnownHostsLines = stripped_lines(ForeignKnownHosts)
                             \cup { IpKeyLine(i) : i \in Registered }
        /\ StrictlyAscending(ReadLines(known_hosts.data))

\* The same slave registered twice.
C9_Witness ==
    /\ AllDone
    /\ Len(sessions) = 2
    /\ Registers(1, "i-w3") /\ Registers(2, "i-w3")
    /\ known_hosts.data = << "1", "0", ".", "0", ".", "0", ".", "5", " ", "e", "c", "d", "s", "a", "-", "s", "h", "a", "2", " ", "A", "A", "A", "A", "\n", "h", "o", "s", "t", "m", " ", "r", "s", "a", " ", "M", "M", "\n", "h", "o", "s", "t", "n", " ", "r", "s", "a", " ", "K", "K", "\n" >>

\* The two registrations of the scenario.
TwoWorkersRegistered ==
    /\ AllDone
    /\ Len(sessions) = 2
    /\ { sessions[s].slaves_to_add : s \in Sessions } =
          { << << "1", "0", ".", "0", ".", "0", ".", "2", ":", "r", "s", "a", ":", "B", "B", "B" >> >>,
            << << "1", "0", ".", "0", ".", "0", ".", "3", ":", "r", "s", "a", ":", "C", "C", "C" >> >> }

\* C10: the master's boot creates the missing slaves file and leaves it
\* empty; once the two slaves have registered, in either order, the file is
\* "10.0.0.2\n10.0.0.3\n" and known_hosts holds its earlier lines and two
\* more, one for each slave.
C10_EndToEnd ==
    /\ ( symlinked /\ sessions = <<>> ) => slaves_file = File(<<>>)
    /\ ( symlinked /\ TwoWorkersRegistered ) =>
          /\ slaves_file.data = << "1", "0", ".", "0", ".", "0", ".", "2", "\n", "1", "0", ".", "0", ".", "0", ".", "3", "\n" >>
          /\ stripped_lines(ForeignKnownHosts) \subseteq KnownHostsLines
          /\ KnownHostsLines \ stripped_lines(ForeignKnownHosts) =
                { << "1", "0", ".", "0", ".", "0", ".", "2", " ", "r", "s", "a", " ", "B", "B", "B" >>,
                  << "1", "0", ".", "0", ".", "0", ".", "3", " ", "r", "s", "a", " ", "C", "C", "C" >> }
          /\ Len(ReadLines(known_hosts.data)) = Len(ReadLines(ForeignKnownHosts.data)) + 2

\* The slave 10.0.0.3 wrote first into the file the boot had created.
C10_Witness ==
    /\ symlinked
    /\ TwoWorkersRegistered
    /\ sessions[1].slaves = { << "1", "0", ".", "0", ".", "0", ".", "3" >> }
    /\ slaves_file.data = << "1", "0", ".", "0", ".", "0", ".", "2", "\n", "1", "0", ".", "0", ".", "0", ".", "3", "\n" >>

\* Session s is between its flock on the known_hosts file and the close of it.
InKnownHosts(s) == sessions[s].pc \in { "kh_read", "kh_write", "kh_close" }

\* C11: among concurrent sessions at most one at a time is between locking
\* the known_hosts file and closing it, the lock is held exactly by that
\* session, and once every session has ended the file holds the line of the
\* host key of every registration.
C11_KnownHostsExclusive ==
    /\ Cardinality({ s \in Sessions : InKnownHosts(s) }) <= 1
    /\ \A s \in Sessions : InKnownHosts(s) <=> known_hosts_lock = s
    /\ AllDone =>
          \A s \in Sessions : IsRegister(s) =>
              Join(<< " " >>, Split(sessions[s].slaves_to_add[1], ":")) \in KnownHostsLines

\* Two slaves registered; the second one read the file with the line of the
\* first one in it.
C11_Witness ==
    /\ AllDone
    /\ Len(sessions) = 2
    /\ Registers(1, "i-w3") /\ Registers(2, "i-w1")
    /\ IpKeyLine("i-w3") \in sessions[2].keys
    /\ { IpKeyLine("i-w1"), IpKeyLine("i-w3") } \subseteq KnownHostsLines

\* The data of a file in canonical form: every line is a non-empty entry
\* followed by one line end, and each entry is greater than the one before it
\* (so none occurs twice); no line at all for no entry.
IsCanonical(data) ==
    LET lines == ReadLines(data) IN
    /\ StrictlyAscending(lines)
    /\ \A k \in 1..Len(lines) :
          /\ Strip(lines[k]) # <<>>
          /\ lines[k] = Strip(lines[k]) \o << "\n" >>

\* C12: when a session of manage_slaves, with or without slaves to add,
\* leaves the with block, the slaves file is in canonical form and holds
\* exactly the non-empty entries of the session's set; an empty set gives an
\* empty file.
C12_CanonicalAfterCall ==
    [][ \A s \in Sessions :
          ( sessions[s].pc = "close" /\ sessions'[s].pc # "close" ) =>
             /\ IsCanonical(slaves_file'.data)
             /\ IPsIn(slaves_file') = sessions[s].slaves \ { <<>> }
             /\ sessions[s].slaves \ { <<>> } = {} => slaves_file'.data = <<>> ]_vars

\* An initialization that listed two slaves, then the registration of a
\* third one.
C12_Witness ==
    /\ AllDone
    /\ Len(sessions) = 2
    /\ ~ IsRegister(1)
    /\ sessions[1].slaves = { private_ip_address("i-w1"), private_ip_address("i-w2") }
    /\ Registers(2, "i-w3")
    /\ slaves_file.data = << "1", "0", ".", "0", ".", "0", ".", "2", "\n", "1", "0", ".", "0", ".", "0", ".", "3", "\n", "1", "0", ".", "0", ".", "0", ".", "5", "\n" >>

\* C13: on a slave, __get_master_host_key always goes on to the wait for the
\* master's ssh port without an error; with no ssh_host_key tag on the master
\* it leaves the node's known_hosts file as it is (a missing file stays
\* missing), and with a tag "algo:key" it leaves the file in canonical form
\* with its earlier lines and the line "spark-master algo key".
C13_MasterHostKey ==
    [][ ( pc = "get_master_host_key" /\ pc' # pc ) =>
          /\ pc' = "wait_for_master_ssh"
          /\ error' = ""
          /\ host_key_tag = <<>> => node_known_hosts' = node_known_hosts
          /\ host_key_tag # <<>> =>
                /\ node_known_hosts'.exists
                /\ IsCanonical(node_known_hosts'.data)
                /\ stripped_lines(node_known_hosts') =
                      ( stripped_lines(node_known_hosts) \ { <<>> } )
                      \cup { spark_master \o << " ", "e", "c", "d", "s", "a", "-", "s", "h", "a", "2", " ", "M", "M", "M" >> } ]_vars

\* The slave waits for the master's ssh port with the master's key merged
\* into a known_hosts file that held other lines.
C13_Witness ==
    /\ instance_id = "i-w1"
    /\ pc = "wait_for_master_ssh"
    /\ host_key_tag = << "e", "c", "d", "s", "a", "-", "s", "h", "a", "2", ":", "M", "M", "M" >>
    /\ node_known_hosts.data = << "h", "o", "s", "t", "m", " ", "r", "s", "a", " ", "M", "M", "\n", "h", "o", "s", "t", "n", " ", "r", "s", "a", " ", "K", "K", "\n", "s", "p", "a", "r", "k", "-", "m", "a", "s", "t", "e", "r", " ", "e", "c", "d", "s", "a", "-", "s", "h", "a", "2", " ", "M", "M", "M", "\n" >>

\* The slave waits for the master's ssh port; the master has no ssh_host_key
\* tag and the slave has no known_hosts file.
C13_WitnessAbsent ==
    /\ instance_id = "i-w1"
    /\ pc = "wait_for_master_ssh"
    /\ host_key_tag = <<>>
    /\ node_known_hosts = NoFile
    /\ error = ""

\* Session s stands in fcntl.flock while another session holds the lock.
Blocked(s) ==
    \/ sessions[s].pc = "flock" /\ slaves_lock \notin { NoHolder, s }
    \/ sessions[s].pc = "kh_flock" /\ known_hosts_lock \notin { NoHolder, s }

\* C14: a session that finds the lock held stays where it is, in flock, and
\* does not end; and with fair scheduling every session that was started,
\* with or without slaves to add, runs to its end (or to the exception of a
\* failed query, never one of flock): again and again all the sessions
\* started so far have ended (a session that has ended stays so).
C14_BlocksThenCompletes ==
    /\ [][ \A s \in Sessions : Blocked(s) => sessions'[s] = sessions[s] ]_vars
    /\ []<>( \A s \in Sessions : sessions[s].pc \in { "done", "failed" } )

\* An initialization has ended after a registration that made it wait, and
\* the registration has ended as well.
C14_Witness ==
    /\ AllDone
    /\ Len(sessions) = 2
    /\ Registers(1, "i-w1")
    /\ ~ IsRegister(2)
    /\ private_ip_address("i-w1") \in sessions[2].slaves
    /\ slaves_lock = NoHolder /\ known_hosts_lock = NoHolder

\* C15: while the node carries no spark_master tag, master_id neither returns
\* nor raises: start( ) stays in the loop with no master_id and no error; when
\* master_id returns, the node carries the tag and the value returned is the
\* tag's; and once the tag is there, a master_id that keeps polling returns.
C15_MasterIdWaitsForTag ==
    /\ [] ( ( pc = "master_id" /\ instance_id \notin tagged ) => ( master_id = "" /\ error = "" ) )
    /\ [][ ( pc = "master_id" /\ pc' # pc ) =>
              /\ instance_id \in tagged
              /\ master_id' = Master
              /\ pc' = "master_ip"
              /\ error' = "" ]_vars
    /\ ( pc = "master_id" /\ instance_id \in tagged ) ~> ( master_id = Master )

\* A slave whose master_id has returned the tag's value.
C15_Witness ==
    /\ instance_id = "i-w1"
    /\ instance_id \in tagged
    /\ pc = "master_ip"
    /\ master_id = "i-m"
    /\ error = ""

\* A line of /etc/hosts mentions one of the two aliases.
Mentions(line) == Contains(line, spark_master) \/ Contains(line, spark_node)

\* The lines of a hosts file that mention neither alias, in order and without
\* their line ends.
OtherLines(data) ==
    LET kept == SelectSeq(ReadLines(data), LAMBDA line : ~ Mentions(line))
    IN [ k \in 1..Len(kept) |-> RStrip(kept[k]) ]

\* The number of lines of a hosts file that mention an alias.
LinesFor(data, alias) ==
    Cardinality({ k \in 1..Len(ReadLines(data)) : Contains(ReadLines(data)[k], alias) })

\* What a patch with the two IPs (empty for None) is stated to do.
PatchedAsStated(before, after, ip_master, ip_node) ==
    /\ OtherLines(after) = OtherLines(before)
    /\ LinesFor(after, spark_master) = IF ip_master # <<>> THEN 1 ELSE 0
    /\ LinesFor(after, spark_node) = IF ip_node # <<>> THEN 1 ELSE 0

\* C16 as stated: __patch_etc_hosts keeps the lines that mention neither
\* alias, in their order; after the patch of start( ) the file has exactly one
\* line for each alias, and after the patch of stop( ) none.
C16_PatchKeepsOtherLines ==
    [][ /\ ( pc = "patch_etc_hosts" /\ pc' # pc ) =>
              PatchedAsStated(etc_hosts, etc_hosts', master_ip, node_ip)
        /\ ( pc = "done" /\ pc' = "stopped" ) =>
              PatchedAsStated(etc_hosts, etc_hosts', <<>>, <<>>) ]_vars

\* C16, where it goes wrong: the hosts file's last line had no line end, the
\* patch of start( ) wrote the first alias onto that line, and stop( ) then
\* removed the line, leaving a file without the line of hostn.
C16_Witness ==
    /\ pc = "stopped"
    /\ etc_hosts = <<>>

\* C16 for a hosts file whose every line has its line end: the patch does
\* what is stated.
C16_TerminatedFileHolds ==
    [][ ( etc_hosts = <<>> \/ etc_hosts[Len(etc_hosts)] = "\n" ) =>
          /\ ( pc = "patch_etc_hosts" /\ pc' # pc ) =>
                PatchedAsStated(etc_hosts, etc_hosts', master_ip, node_ip)
          /\ ( pc = "done" /\ pc' = "stopped" ) =>
                PatchedAsStated(etc_hosts, etc_hosts', <<>>, <<>>) ]_vars

\* The IPs that are in a slaves file or on their way into it: those of its
\* lines and those a session has yet to flush into the file it truncated.
IPsKept(file, procs) ==
    IPsIn(file)
    \cup UNION { procs[s].slaves \ { <<>> } : s \in { r \in 1..Len(procs) : procs[r].pc = "close" } }

\* C17: __prepare_slaves_file leaves a slaves file that exists, with the data
\* it had; no step of the master's start( ) and no registration takes an IP
\* out of the file; so when the master's start( ) has ended and nobody holds
\* the file, it holds the IP of every slave that registered, before or
\* meanwhile.
C17_SeedingKeepsContent ==
    /\ [][ ( pc = "prepare_slaves_file" /\ pc' # pc ) =>
              ( slaves_file'.exists /\ slaves_file'.data = slaves_file.data ) ]_vars
    /\ [][ IPsKept(slaves_file, sessions) \subseteq IPsKept(slaves_file', sessions') ]_vars
    /\ [] ( ( pc = "done" /\ slaves_lock = NoHolder ) =>
               \A i \in Registered : private_ip_address(i) \in SlaveIPs )

\* The master's start( ) has ended; 10.0.0.3 was in the file before
\* __prepare_slaves_file ran and 10.0.0.2 registered before it ran, too.
C17_Witness ==
    /\ pc = "done"
    /\ symlinked
    /\ AllDone
    /\ Len(sessions) = 1
    /\ Registers(1, "i-w1")
    /\ sessions[1].slaves = { private_ip_address("i-w1"), private_ip_address("i-w2") }
    /\ slaves_file.data = << "1", "0", ".", "0", ".", "0", ".", "2", "\n", "1", "0", ".", "0", ".", "0", ".", "3", "\n" >>

\* The steps of start( ) that only the master branch and only the slave
\* branch have.
MasterSteps == { "publish_host_key", "prepare_slaves_file", "format_namenode" }
SlaveSteps == { "get_master_host_key", "wait_for_master_ssh", "register_with_master" }

\* The node's spark_master tag names the node itself.
TaggedAsMaster == instance_id \in tagged /\ Master = instance_id

\* C18: once master_ip is resolved, it equals node_ip exactly when the node's
\* spark_master tag is the node's own instance ID; start( ) stands in a step
\* of the master branch only on such a node and in a step of the slave
\* branch only on another one, and the event emitted is the branch's.
C18_BranchByTag ==
    /\ master_ip # <<>> => ( ( master_ip = node_ip ) <=> TaggedAsMaster )
    /\ pc \in MasterSteps => TaggedAsMaster
    /\ pc \in SlaveSteps => ( instance_id \in tagged /\ ~ TaggedAsMaster )
    /\ \A k \in 1..Len(emitted) :
          ( emitted[k] = "sparkbox-start-master" ) <=> TaggedAsMaster
    /\ ( var_dirs /\ pc \notin { "failed", "create_var_dirs" } /\ emitted = <<>> ) =>
          pc \in ( IF TaggedAsMaster THEN MasterSteps ELSE SlaveSteps ) \cup { "emit" }

\* A slave in its branch: its tag names the master, whose IP it looked up.
C18_Witness ==
    /\ instance_id = "i-w1"
    /\ pc = "register_with_master"
    /\ master_id = "i-m"
    /\ reservations # <<>>
    /\ master_ip = << "1", "0", ".", "0", ".", "0", ".", "1" >>
    /\ node_ip = << "1", "0", ".", "0", ".", "0", ".", "2" >>

\* Session s ran without slaves to add and ended with the exception of the
\* query.
QueryFailed(s) == ~ IsRegister(s) /\ sessions[s].pc = "failed"

\* C19: when the query of an initialization raises, the slaves file is left
\* as it was, data and all, and the lock is free, so that a session waiting
\* in flock can go on; a session that failed holds no lock; and when every
\* initialization failed and every registration has ended, the file holds
\* exactly the IPs that registered.
C19_FailedQueryLeavesFile ==
    /\ [][ \A s \in Sessions :
             ( sessions[s].pc = "read" /\ sessions'[s].pc = "failed" ) =>
                /\ slaves_file' = slaves_file
                /\ slaves_lock = s /\ slaves_lock' = NoHolder ]_vars
    /\ [] ( \A s \in Sessions : QueryFailed(s) => slaves_lock # s )
    /\ [] ( ( \A s \in Sessions : IF IsRegister(s) THEN IsDone(s) ELSE QueryFailed(s) ) =>
               ( Registered = {} \/ SlaveIPs = { private_ip_address(i) : i \in Registered } ) )

\* A registration that has ended and an initialization whose query raised:
\* the file holds the registered IP and nobody holds the lock.
C19_Witness ==
    /\ Len(sessions) = 2
    /\ Registers(1, "i-w1") /\ IsDone(1)
    /\ QueryFailed(2)
    /\ slaves_lock = NoHolder
    /\ slaves_file.data = << "1", "0", ".", "0", ".", "0", ".", "2", "\n" >>

\* C20: on the master, whatever the exit status of the namenode format,
\* start( ) goes on to emit the event, without an error; the emit either adds
\* sparkbox-start-master and ends start( ), or fails, and then start( ) is
\* aborted with CalledProcessError and no event; so a master that is done may
\* have any exit status of the format behind it.
C20_FormatDoesNotGate ==
    /\ [][ ( pc = "format_namenode" /\ pc' # pc ) =>
              /\ pc' = "emit"
              /\ error' = ""
              /\ Len(namenode_format') = 1 ]_vars
    /\ [][ ( instance_id = Master /\ pc = "emit" /\ pc' # pc ) =>
              \/ pc' = "done" /\ emitted' = << "sparkbox-start-master" >> /\ error' = ""
              \/ pc' = "failed" /\ emitted' = <<>> /\ error' = "CalledProcessError" ]_vars
    /\ [] ( error = "CalledProcessError" => ( pc = "failed" /\ emitted = <<>> ) )

\* The format exited with 1 and the master emitted its event all the same.
C20_Witness ==
    /\ instance_id = Master
    /\ namenode_format = << 1 >>
    /\ pc = "done"
    /\ emitted = << "sparkbox-start-master" >>
    /\ error = ""

\* The format exited with 0 and the emit failed: start( ) is aborted.
C20_WitnessEmitFails ==
    /\ instance_id = Master
    /\ namenode_format = << 0 >>
    /\ pc = "failed"
    /\ emitted = <<>>
    /\ error = "CalledProcessError"

=============================================================================
